---- MODULE Spec2Model ----
(***************************************************************************)
(* Model of crates/shader/src/bevy_pbr/pbr_functions.rs: the per-fragment  *)
(* helpers alpha_discard, prepare_world_normal, calculate_view and the     *)
(* clustered-forward aggregator pbr.                                       *)
(*                                                                         *)
(* Numbers.  An f32 is modelled as an integer count of 1e-4 units (the     *)
(* literal 0.0001 of pbr is the unit), so 1.0 is One.  Products are        *)
(* rescaled and truncated (FMul); sums and comparisons are exact.  Vec3    *)
(* and Vec4 are tuples.  A u32 flag word is modelled as the set of the     *)
(* named bits that are set in it, so (flags & BIT) != 0 is BIT \in flags.  *)
(***************************************************************************)
EXTENDS Integers, Sequences, FiniteSets

VARIABLES
    features,       \* cargo features the crate was built with
    input,          \* PbrInput
    mesh,           \* Mesh (flags)
    lights,         \* Lights (directional lights, ambient colour)
    point_lights,   \* PointLights.data, indexed by light id
    cluster,        \* the fragment's (offset, point count, spot count)
    shadow_texel,   \* what a shadow-map fetch returns for this fragment
    pc,             \* position of the pbr invocation
    output_color,   \* pbr's local output_color
    n_dot_v,        \* pbr's local n_dot_v
    light_accum,    \* pbr's local light_accum
    i,              \* the running loop variable of pbr
    trace,          \* calls made by the invocation so far, in order
    result,         \* colour returned by pbr, or NoOutput
    cv,             \* two calculate_view calls (arguments and results)
    pn              \* one prepare_world_normal call and one apply_normal_mapping
                    \* call (arguments and results)

vars == <<features, input, mesh, lights, point_lights, cluster, shadow_texel,
          pc, output_color, n_dot_v, light_accum, i, trace, result, cv, pn>>

pbrVars == <<features, input, mesh, lights, point_lights, cluster, shadow_texel,
             pc, output_color, n_dot_v, light_accum, i, trace, result>>

----------------------------------------------------------------------------
(* Fixed-point arithmetic standing for f32 *)

\* 0.0001, the floor of n_dot_v, is one unit
N_DOT_V_FLOOR == 1

\* number of records in the point-light buffer
NumLights == 2

One == 10000 * N_DOT_V_FLOOR

Half == One \div 2

Abs(x) == IF x < 0 THEN -x ELSE x

\* quotient rounded toward zero
TDiv(a, b) ==
    IF (a < 0) = (b < 0) THEN Abs(a) \div Abs(b) ELSE -(Abs(a) \div Abs(b))

FMul(a, b) == TDiv(a * b, One)

FMax(a, b) == IF a >= b THEN a ELSE b

FMin(a, b) == IF a <= b THEN a ELSE b

Vec3Zero == <<0, 0, 0>>

VAdd(a, b) == [k \in 1..3 |-> a[k] + b[k]]

VSub(a, b) == [k \in 1..3 |-> a[k] - b[k]]

VMul(a, b) == [k \in 1..3 |-> FMul(a[k], b[k])]

VScale(a, s) == [k \in 1..3 |-> FMul(a[k], s)]

Dot(a, b) == FMul(a[1], b[1]) + FMul(a[2], b[2]) + FMul(a[3], b[3])

Truncate(c) == <<c[1], c[2], c[3]>>

Extend(c, w) == <<c[1], c[2], c[3], w>>

----------------------------------------------------------------------------
(* Flag bits and cargo features named by pbr_functions.rs *)

STANDARD_MATERIAL_FLAGS_ALPHA_MODE_OPAQUE == "ALPHA_MODE_OPAQUE"

STANDARD_MATERIAL_FLAGS_ALPHA_MODE_MASK == "ALPHA_MODE_MASK"

\* a material bit alpha_discard does not read
STANDARD_MATERIAL_FLAGS_OTHER == "ALPHA_MODE_BLEND"

MESH_FLAGS_SHADOW_RECEIVER_BIT == "SHADOW_RECEIVER"

POINT_LIGHT_FLAGS_SHADOWS_ENABLED_BIT == "POINT_SHADOWS_ENABLED"

DIRECTIONAL_LIGHT_FLAGS_SHADOWS_ENABLED_BIT == "DIRECTIONAL_SHADOWS_ENABLED"

VERTEX_TANGENTS == "VERTEX_TANGENTS"

STANDARDMATERIAL_NORMAL_MAP == "STANDARDMATERIAL_NORMAL_MAP"

VERTEX_UVS == "VERTEX_UVS"

STANDARD_MATERIAL_FLAGS_TWO_COMPONENT_NORMAL_MAP == "TWO_COMPONENT_NORMAL_MAP"

STANDARD_MATERIAL_FLAGS_FLIP_NORMAL_MAP_Y == "FLIP_NORMAL_MAP_Y"

\* the feature that compiles the overlay of cluster_debug_visualization in
CLUSTER_DEBUG == "CLUSTERED_FORWARD_DEBUG"

NoOutput == <<>>

----------------------------------------------------------------------------
(* alpha_discard: the colour it returns, and whether it reached kill() *)

alpha_discard_keeps_masked(material, color) ==
    IF STANDARD_MATERIAL_FLAGS_ALPHA_MODE_OPAQUE \in material.flags
    THEN [color |-> Extend(color, One), killed |-> FALSE]
    ELSE IF STANDARD_MATERIAL_FLAGS_ALPHA_MODE_MASK \in material.flags
         THEN [color |-> Extend(color, One), killed |-> FALSE]
         ELSE [color |-> color, killed |-> FALSE]

alpha_discard_keeps_alpha(material, color) ==
    IF STANDARD_MATERIAL_FLAGS_ALPHA_MODE_OPAQUE \in material.flags
    THEN [color |-> color, killed |-> FALSE]
    ELSE IF STANDARD_MATERIAL_FLAGS_ALPHA_MODE_MASK \in material.flags
         THEN IF color[4] >= material.alpha_cutoff
              THEN [color |-> Extend(color, One), killed |-> FALSE]
              ELSE [color |-> color, killed |-> TRUE]
         ELSE [color |-> color, killed |-> FALSE]

alpha_discard_strict_cutoff(material, color) ==
    IF STANDARD_MATERIAL_FLAGS_ALPHA_MODE_OPAQUE \in material.flags
    THEN [color |-> Extend(color, One), killed |-> FALSE]
    ELSE IF STANDARD_MATERIAL_FLAGS_ALPHA_MODE_MASK \in material.flags
         THEN IF color[4] > material.alpha_cutoff
              THEN [color |-> Extend(color, One), killed |-> FALSE]
              ELSE [color |-> color, killed |-> TRUE]
         ELSE [color |-> color, killed |-> FALSE]

alpha_discard(material, color) ==
    IF STANDARD_MATERIAL_FLAGS_ALPHA_MODE_OPAQUE \in material.flags
    THEN [color |-> Extend(color, One), killed |-> FALSE]
    ELSE IF STANDARD_MATERIAL_FLAGS_ALPHA_MODE_MASK \in material.flags
         THEN IF color[4] >= material.alpha_cutoff
              THEN [color |-> Extend(color, One), killed |-> FALSE]
              ELSE [color |-> color, killed |-> TRUE]
         ELSE [color |-> color, killed |-> FALSE]

----------------------------------------------------------------------------
(* Helpers pbr calls that live outside pbr_functions.rs *)

Clamp(x, lo, hi) == FMin(FMax(x, lo), hi)

\* monotonic remapping curve, not the identity
perceptual_roughness_to_roughness(perceptual_roughness) ==
    LET c == Clamp(perceptual_roughness, 890 * N_DOT_V_FLOOR, One) IN FMul(c, c)

\* analytic fit; finite for finite arguments
env_brdf_approx(f0, perceptual_roughness, NoV) ==
    [k \in 1..3 |-> FMul(f0[k], One - (perceptual_roughness \div 2)) + (NoV \div 8)]

\* radiance of one light through the BRDF
point_light(light_id, roughness, NoV, f0, diffuse_color) ==
    [k \in 1..3 |-> (diffuse_color[k] \div 2) + FMul(f0[k], roughness)
                    + (NoV \div 16) + 100 * (light_id + 1)]

spot_light(light_id, roughness, NoV, f0, diffuse_color) ==
    [k \in 1..3 |-> (diffuse_color[k] \div 4) + FMul(f0[k], roughness)
                    + (NoV \div 16) + 10 * (light_id + 1)]

directional_light(index, roughness, NoV, f0, diffuse_color) ==
    [k \in 1..3 |-> (diffuse_color[k] \div 8) + FMul(f0[k], roughness)
                    + (NoV \div 16) + 1000 * (index + 1)]

\* the shadow-map samplers return the texel of the fragment, a value in [0,1]
fetch_point_shadow(light_id) == shadow_texel

fetch_spot_shadow(light_id) == shadow_texel

fetch_directional_shadow(index) == shadow_texel

\* the light id stored at position index of the shared light-index list
get_light_id(index) == (index + 1) % NumLights

\* the overlay recolours RGB when compiled in and has no effect otherwise
cluster_debug_visualization(color, offset_and_counts) ==
    IF CLUSTER_DEBUG \in features
    THEN Extend(VAdd(VScale(Truncate(color), One - (One \div 5)),
                     <<(One \div 5) * (1 + offset_and_counts[2] + offset_and_counts[3]), 0, 0>>),
                color[4])
    ELSE color

----------------------------------------------------------------------------
(* pbr: the values it derives once per invocation *)

NDotV_unfloored(n, v) == Dot(n, v)

NDotV(n, v) == FMax(Dot(n, v), N_DOT_V_FLOOR)

Roughness == perceptual_roughness_to_roughness(input.material.perceptual_roughness)

F0 ==
    LET reflectance == input.material.reflectance
        metallic == input.material.metallic
        dielectric == FMul(FMul(FMul(1600 * N_DOT_V_FLOOR, reflectance), reflectance),
                           One - metallic)
    IN  [k \in 1..3 |-> dielectric + FMul(output_color[k], metallic)]

DiffuseColor == VScale(Truncate(output_color), One - input.material.metallic)

\* the index ranges of the two cluster loops, as <<first, end>>
point_light_range(offset_and_counts) ==
    <<offset_and_counts[1], offset_and_counts[1] + offset_and_counts[2]>>

spot_light_range_from_offset(offset_and_counts) ==
    <<offset_and_counts[1],
      offset_and_counts[1] + offset_and_counts[2] + offset_and_counts[3]>>

spot_light_range(offset_and_counts) ==
    <<offset_and_counts[1] + offset_and_counts[2],
      offset_and_counts[1] + offset_and_counts[2] + offset_and_counts[3]>>

\* the shadow factor of one light, and the sampler called for it (if any)
Unshadowed == [factor |-> One, sampler |-> "none", arg |-> 0]

point_shadow(light_id) ==
    IF MESH_FLAGS_SHADOW_RECEIVER_BIT \in mesh.flags
       /\ POINT_LIGHT_FLAGS_SHADOWS_ENABLED_BIT \in point_lights[light_id].flags
    THEN [factor |-> fetch_point_shadow(light_id), sampler |-> "fetch_point_shadow",
          arg |-> light_id]
    ELSE Unshadowed

spot_shadow_any_flag(light_id) ==
    IF MESH_FLAGS_SHADOW_RECEIVER_BIT \in mesh.flags
       \/ POINT_LIGHT_FLAGS_SHADOWS_ENABLED_BIT \in point_lights[light_id].flags
    THEN [factor |-> fetch_spot_shadow(light_id), sampler |-> "fetch_spot_shadow",
          arg |-> light_id]
    ELSE Unshadowed

spot_shadow(light_id) ==
    IF MESH_FLAGS_SHADOW_RECEIVER_BIT \in mesh.flags
       /\ POINT_LIGHT_FLAGS_SHADOWS_ENABLED_BIT \in point_lights[light_id].flags
    THEN [factor |-> fetch_spot_shadow(light_id), sampler |-> "fetch_spot_shadow",
          arg |-> light_id]
    ELSE Unshadowed

directional_shadow(index) ==
    IF MESH_FLAGS_SHADOW_RECEIVER_BIT \in mesh.flags
       /\ DIRECTIONAL_LIGHT_FLAGS_SHADOWS_ENABLED_BIT
              \in lights.directional_lights[index + 1].flags
    THEN [factor |-> fetch_directional_shadow(index),
          sampler |-> "fetch_directional_shadow", arg |-> index]
    ELSE Unshadowed

\* the final colour before the debug overlay
Combine_unscaled_emissive(accum, diffuse_ambient, specular_ambient) ==
    Extend(VAdd(VAdd(accum,
                     VScale(VMul(VAdd(diffuse_ambient, specular_ambient),
                                 Truncate(lights.ambient_color)),
                            input.occlusion)),
                Truncate(input.material.emissive)),
           output_color[4])

Combine_opaque_alpha(accum, diffuse_ambient, specular_ambient) ==
    Extend(VAdd(VAdd(accum,
                     VScale(VMul(VAdd(diffuse_ambient, specular_ambient),
                                 Truncate(lights.ambient_color)),
                            input.occlusion)),
                VScale(Truncate(input.material.emissive), output_color[4])),
           One)

Combine(accum, diffuse_ambient, specular_ambient) ==
    Extend(VAdd(VAdd(accum,
                     VScale(VMul(VAdd(diffuse_ambient, specular_ambient),
                                 Truncate(lights.ambient_color)),
                            input.occlusion)),
                VScale(Truncate(input.material.emissive), output_color[4])),
           output_color[4])

\* one entry of the call trace
Call(op, index, light, shadow, NoV) ==
    [op |-> op, index |-> index, light |-> light, shadow |-> shadow.factor,
     sampler |-> shadow.sampler, sampler_arg |-> shadow.arg, n_dot_v |-> NoV]

----------------------------------------------------------------------------
(* pbr: one action per straight-line section and per loop iteration *)

PbrEntry ==
    /\ pc = "start"
    /\ LET discarded == alpha_discard(input.material, input.material.base_color)
       IN  /\ output_color' = IF discarded.killed THEN input.material.base_color
                                                  ELSE discarded.color
           /\ pc' = IF discarded.killed THEN "killed" ELSE "shade"
    /\ trace' = <<Call("alpha_discard", 0, 0, Unshadowed, 0)>>
    /\ UNCHANGED <<features, input, mesh, lights, point_lights, cluster, shadow_texel,
                   n_dot_v, light_accum, i, result, cv, pn>>

PbrSetup ==
    /\ pc = "shade"
    /\ n_dot_v' = NDotV(input.n, input.v)
    /\ light_accum' = Vec3Zero
    /\ trace' = Append(trace, Call("unpack_offset_and_counts", 0, 0, Unshadowed, 0))
    /\ i' = point_light_range(cluster)[1]
    /\ pc' = "point_lights"
    /\ UNCHANGED <<features, input, mesh, lights, point_lights, cluster, shadow_texel,
                   output_color, result, cv, pn>>

PointLightIter ==
    /\ pc = "point_lights"
    /\ i < point_light_range(cluster)[2]
    /\ LET light_id == get_light_id(i)
           shadow == point_shadow(light_id)
           light_contrib == point_light(light_id, Roughness, n_dot_v, F0, DiffuseColor)
       IN  /\ light_accum' = VAdd(light_accum, VScale(light_contrib, shadow.factor))
           /\ trace' = Append(trace, Call("point_light", i, light_id, shadow, n_dot_v))
    /\ i' = i + 1
    /\ UNCHANGED <<features, input, mesh, lights, point_lights, cluster, shadow_texel,
                   pc, output_color, n_dot_v, result, cv, pn>>

PointLightsDone ==
    /\ pc = "point_lights"
    /\ i >= point_light_range(cluster)[2]
    /\ i' = spot_light_range(cluster)[1]
    /\ pc' = "spot_lights"
    /\ UNCHANGED <<features, input, mesh, lights, point_lights, cluster, shadow_texel,
                   output_color, n_dot_v, light_accum, trace, result, cv, pn>>

SpotLightIter ==
    /\ pc = "spot_lights"
    /\ i < spot_light_range(cluster)[2]
    /\ LET light_id == get_light_id(i)
           shadow == spot_shadow(light_id)
           light_contrib == spot_light(light_id, Roughness, n_dot_v, F0, DiffuseColor)
       IN  /\ light_accum' = VAdd(light_accum, VScale(light_contrib, shadow.factor))
           /\ trace' = Append(trace, Call("spot_light", i, light_id, shadow, n_dot_v))
    /\ i' = i + 1
    /\ UNCHANGED <<features, input, mesh, lights, point_lights, cluster, shadow_texel,
                   pc, output_color, n_dot_v, result, cv, pn>>

SpotLightsDone ==
    /\ pc = "spot_lights"
    /\ i >= spot_light_range(cluster)[2]
    /\ i' = 0
    /\ pc' = "directional_lights"
    /\ UNCHANGED <<features, input, mesh, lights, point_lights, cluster, shadow_texel,
                   output_color, n_dot_v, light_accum, trace, result, cv, pn>>

DirectionalLightIter ==
    /\ pc = "directional_lights"
    /\ i < lights.n_directional_lights
    /\ LET shadow == directional_shadow(i)
           light_contrib == directional_light(i, Roughness, n_dot_v, F0, DiffuseColor)
       IN  /\ light_accum' = VAdd(light_accum, VScale(light_contrib, shadow.factor))
           /\ trace' = Append(trace, Call("directional_light", i, i, shadow, n_dot_v))
    /\ i' = i + 1
    /\ UNCHANGED <<features, input, mesh, lights, point_lights, cluster, shadow_texel,
                   pc, output_color, n_dot_v, result, cv, pn>>

PbrFinish ==
    /\ pc = "directional_lights"
    /\ i >= lights.n_directional_lights
    /\ LET diffuse_ambient == env_brdf_approx(DiffuseColor, One, n_dot_v)
           specular_ambient ==
               env_brdf_approx(F0, input.material.perceptual_roughness, n_dot_v)
           combined == Combine(light_accum, diffuse_ambient, specular_ambient)
       IN  /\ output_color' = combined
           /\ result' = cluster_debug_visualization(combined, cluster)
    /\ trace' = trace \o <<Call("env_brdf_approx", 0, 0, Unshadowed, n_dot_v),
                           Call("env_brdf_approx", 1, 0, Unshadowed, n_dot_v)>>
    /\ pc' = "done"
    /\ UNCHANGED <<features, input, mesh, lights, point_lights, cluster, shadow_texel,
                   n_dot_v, light_accum, i, cv, pn>>

Next ==
    \/ PbrEntry
    \/ PbrSetup
    \/ PointLightIter
    \/ PointLightsDone
    \/ SpotLightIter
    \/ SpotLightsDone
    \/ DirectionalLightIter
    \/ PbrFinish

----------------------------------------------------------------------------
(* Inputs of a pbr invocation *)

\* largest cluster offset, point count, spot count and directional count drawn
MaxOffset == 1

MaxPointCount == 2

MaxSpotCount == 2

MaxDirectional == 2

MaterialFlagSets ==
    SUBSET {STANDARD_MATERIAL_FLAGS_ALPHA_MODE_OPAQUE,
            STANDARD_MATERIAL_FLAGS_ALPHA_MODE_MASK,
            STANDARD_MATERIAL_FLAGS_OTHER}

\* base-colour alphas: inside, on the edges of and above [0,1]
AlphaValues == {0, Half, One, One + Half}

CutoffValues == {Half, One}

EmissiveValues == {<<0, 0, 0, One>>, <<One, Half, 2 * One, One>>}

AmbientValues == {<<0, 0, 0, One>>, <<Half, Half, One, One>>}

StandardMaterial(flags, alpha, alpha_cutoff, emissive) ==
    [flags |-> flags,
     base_color |-> <<One - (One \div 5), Half, One \div 4, alpha>>,
     emissive |-> emissive,
     alpha_cutoff |-> alpha_cutoff,
     metallic |-> One \div 4,
     perceptual_roughness |-> Half,
     reflectance |-> Half]

AllMaterials ==
    {StandardMaterial(f, a, c, e) :
        f \in MaterialFlagSets, a \in AlphaValues, c \in CutoffValues,
        e \in EmissiveValues}

\* one blended material that is kept and one masked material that is discarded
TwoMaterials ==
    {StandardMaterial({STANDARD_MATERIAL_FLAGS_OTHER}, Half, Half, <<One, Half, 0, One>>),
     StandardMaterial({STANDARD_MATERIAL_FLAGS_ALPHA_MODE_MASK}, 0, Half,
                      <<One, Half, 0, One>>)}

\* facing, perpendicular, opposite and nearly perpendicular normal/view pairs
NormalValues == {<<0, 0, One>>, <<One, 0, 0>>}

ViewValues == {<<0, 0, One>>, <<One, 0, 0>>, <<0, 0, -One>>, <<One, 0, 1>>}

PbrInput(material, n, v) ==
    [material |-> material, occlusion |-> Half, n |-> n, v |-> v]

MeshValues == {[flags |-> {}], [flags |-> {MESH_FLAGS_SHADOW_RECEIVER_BIT}]}

LightIds == 0..(NumLights - 1)

PointLightBuffers ==
    [LightIds -> {[flags |-> {}], [flags |-> {POINT_LIGHT_FLAGS_SHADOWS_ENABLED_BIT}]}]

DirectionalLightValues ==
    {[flags |-> {}], [flags |-> {DIRECTIONAL_LIGHT_FLAGS_SHADOWS_ENABLED_BIT}]}

Lights(directional_lights, ambient_color) ==
    [n_directional_lights |-> Len(directional_lights),
     directional_lights |-> directional_lights,
     ambient_color |-> ambient_color]

ClusterValues == (0..MaxOffset) \X (0..MaxPointCount) \X (0..MaxSpotCount)

ShadowTexels == {0, Half, One}

PbrLocalsInit ==
    /\ pc = "start"
    /\ output_color = <<0, 0, 0, 0>>
    /\ n_dot_v = 0
    /\ light_accum = Vec3Zero
    /\ i = 0
    /\ trace = <<>>
    /\ result = NoOutput

CvIdle == [phase |-> "idle"]

PnIdle == [phase |-> "idle"]

\* every material and normal/view pair, over an empty and a one-of-each scene
Init ==
    /\ features \in SUBSET {CLUSTER_DEBUG}
    /\ input \in {PbrInput(m, n, v) :
                     m \in AllMaterials, n \in NormalValues, v \in ViewValues}
    /\ \E ambient \in AmbientValues, populated \in BOOLEAN :
          /\ lights = Lights(IF populated
                             THEN <<[flags |-> {DIRECTIONAL_LIGHT_FLAGS_SHADOWS_ENABLED_BIT}]>>
                             ELSE <<>>,
                             ambient)
          /\ cluster = IF populated THEN <<1, 1, 1>> ELSE <<0, 0, 0>>
    /\ mesh = [flags |-> {MESH_FLAGS_SHADOW_RECEIVER_BIT}]
    /\ point_lights = [id \in LightIds |->
                          [flags |-> IF id = 0 THEN {POINT_LIGHT_FLAGS_SHADOWS_ENABLED_BIT}
                                               ELSE {}]]
    /\ shadow_texel = Half
    /\ PbrLocalsInit
    /\ cv = CvIdle
    /\ pn = PnIdle

Spec == Init /\ [][Next]_vars

\* every cluster triple, light count and flag assignment, over two materials
InitLights ==
    /\ features = {}
    /\ input \in {PbrInput(m, <<0, 0, One>>, <<0, 0, One>>) : m \in TwoMaterials}
    /\ \E n \in 0..MaxDirectional :
          \E directional_lights \in [1..n -> DirectionalLightValues] :
             lights = Lights(directional_lights, <<Half, Half, One, One>>)
    /\ cluster \in ClusterValues
    /\ mesh \in MeshValues
    /\ point_lights \in PointLightBuffers
    /\ shadow_texel \in ShadowTexels
    /\ PbrLocalsInit
    /\ cv = CvIdle
    /\ pn = PnIdle

SpecLights == InitLights /\ [][Next]_vars

----------------------------------------------------------------------------
(* calculate_view, prepare_world_normal and apply_normal_mapping *)

NaN == "NaN"

RECURSIVE ISqrtBetween(_, _, _)
\* the largest r in lo..hi with r * r <= x
ISqrtBetween(x, lo, hi) ==
    IF lo >= hi THEN lo
    ELSE LET mid == (lo + hi + 1) \div 2
         IN  IF mid * mid <= x THEN ISqrtBetween(x, mid, hi)
                               ELSE ISqrtBetween(x, lo, mid - 1)

Length(a) == ISqrtBetween(a[1] * a[1] + a[2] * a[2] + a[3] * a[3], 0, 4 * One)

\* a / |a|; the zero vector has no direction (0 * inf is NaN)
Normalize(a) ==
    IF Length(a) = 0 THEN <<NaN, NaN, NaN>>
    ELSE [k \in 1..3 |-> TDiv(a[k] * One, Length(a))]

calculate_view_perspective_only(view, world_position, is_orthographic) ==
    Normalize(VSub(view.world_position, Truncate(world_position)))

calculate_view(view, world_position, is_orthographic) ==
    IF is_orthographic
    THEN Normalize(<<view.view_proj.x_axis[3],
                     view.view_proj.y_axis[3],
                     view.view_proj.z_axis[3]>>)
    ELSE Normalize(VSub(view.world_position, Truncate(world_position)))

prepare_world_normal(world_normal, double_sided, is_front) ==
    IF VERTEX_TANGENTS \notin features /\ STANDARDMATERIAL_NORMAL_MAP \notin features
    THEN LET sign == FMul(IF ~double_sided \/ is_front THEN One ELSE 0, 2 * One) - One
         IN  VScale(world_normal, sign)
    ELSE world_normal

\* what a build yields for a function whose body does not compile
DoesNotCompile == <<"does not compile">>

\* the block of lines 82-90 is compiled when both features are on; it names N,
\* cross and world_tangent.xyz, none of which exists in its scope
TangentBasisBlockCompiled ==
    VERTEX_TANGENTS \in features /\ STANDARDMATERIAL_NORMAL_MAP \in features

\* the block of lines 97-117 is guarded by the cfg key feaure, which no build
\* sets, so it is compiled in no build
NormalMapBlockCompiled == FALSE

\* uv_sample stands for textureSample(normal_map_texture, ..., uv).rgb
apply_normal_mapping(standard_material_flags, world_normal, world_tangent, uv_sample) ==
    LET n == world_normal
    IN  IF TangentBasisBlockCompiled THEN DoesNotCompile
        ELSE IF NormalMapBlockCompiled THEN DoesNotCompile
        ELSE Normalize(n)

\* no pbr invocation: the state of pbr while a helper is exercised on its own
PbrIdleInputs ==
    /\ input = PbrInput(StandardMaterial({}, One, Half, <<0, 0, 0, One>>),
                        <<0, 0, One>>, <<0, 0, One>>)
    /\ lights = Lights(<<>>, <<0, 0, 0, One>>)
    /\ cluster = <<0, 0, 0>>
    /\ mesh = [flags |-> {}]
    /\ point_lights = [id \in LightIds |-> [flags |-> {}]]
    /\ shadow_texel = One

PbrIdleLocals ==
    /\ pc = "idle"
    /\ output_color = <<0, 0, 0, 0>>
    /\ n_dot_v = 0
    /\ light_accum = Vec3Zero
    /\ i = 0
    /\ trace = <<>>
    /\ result = NoOutput

\* view-projection matrices: the z components of the x, y and z axes vary, and
\* so do two components calculate_view does not read
ViewProjValues ==
    {[x_axis |-> <<xx, 0, xz, 0>>, y_axis |-> <<0, One, yz, 0>>,
      z_axis |-> <<0, 0, zz, 0>>, w_axis |-> <<0, 0, wz, One>>] :
        xx \in {One, Half}, xz \in {0, One}, yz \in {0, Half},
        zz \in {-One, 0, One}, wz \in {0, Half}}

SameForwardAxis(p, q) ==
    /\ p.x_axis[3] = q.x_axis[3]
    /\ p.y_axis[3] = q.y_axis[3]
    /\ p.z_axis[3] = q.z_axis[3]

CameraPositions == {<<0, 0, One>>, <<One, One, 0>>}

WorldPositions == {<<0, 0, 0, One>>, <<Half, -One, 0, One>>}

View(view_proj, world_position) ==
    [view_proj |-> view_proj, world_position |-> world_position]

\* two calls whose views agree on the forward axis
InitView ==
    /\ \E p \in ViewProjValues, q \in ViewProjValues :
          /\ SameForwardAxis(p, q)
          /\ p.x_axis[1] = One
          /\ p.w_axis[3] = 0
          /\ \E ca \in CameraPositions, cb \in CameraPositions,
                wa \in WorldPositions, wb \in WorldPositions, ortho \in BOOLEAN :
                cv = [phase |-> "ready", view_a |-> View(p, ca), view_b |-> View(q, cb),
                      position_a |-> wa, position_b |-> wb,
                      is_orthographic |-> ortho, out_a |-> NoOutput, out_b |-> NoOutput]
    /\ features = {}
    /\ PbrIdleLocals
    /\ PbrIdleInputs
    /\ pn = PnIdle

CalculateViewA ==
    /\ cv.phase = "ready"
    /\ cv' = [cv EXCEPT !.phase = "one",
                        !.out_a = calculate_view(cv.view_a, cv.position_a,
                                                 cv.is_orthographic)]
    /\ UNCHANGED <<pbrVars, pn>>

CalculateViewB ==
    /\ cv.phase = "one"
    /\ cv' = [cv EXCEPT !.phase = "both",
                        !.out_b = calculate_view(cv.view_b, cv.position_b,
                                                 cv.is_orthographic)]
    /\ UNCHANGED <<pbrVars, pn>>

NextView ==
    \/ CalculateViewA
    \/ CalculateViewB

SpecView == InitView /\ [][NextView]_vars

WorldNormals ==
    {<<0, 0, One>>, <<0, 0, -One>>, <<One, 0, 0>>, <<0, -One, 0>>,
     <<Half, Half, 0>>, <<-Half, 0, Half>>, <<One, -Half, Half>>}

WorldTangents == {<<One, 0, 0, One>>, <<0, One, 0, -One>>}

\* texels of the normal map, each channel in [0,1]
NormalSamples == {<<Half, Half, One>>, <<One, Half, Half>>}

NormalMapFlagSets ==
    SUBSET {STANDARD_MATERIAL_FLAGS_TWO_COMPONENT_NORMAL_MAP,
            STANDARD_MATERIAL_FLAGS_FLIP_NORMAL_MAP_Y}

\* every build of the normal-mapping features, every normal, facing, tangent,
\* normal-map texel and normal-map flag
InitNormal ==
    /\ features \in SUBSET {VERTEX_TANGENTS, VERTEX_UVS, STANDARDMATERIAL_NORMAL_MAP}
    /\ \E world_normal \in WorldNormals, double_sided \in BOOLEAN, is_front \in BOOLEAN,
          world_tangent \in WorldTangents, normal_sample \in NormalSamples,
          flags \in NormalMapFlagSets :
          pn = [phase |-> "ready", world_normal |-> world_normal,
                double_sided |-> double_sided, is_front |-> is_front, out |-> NoOutput,
                standard_material_flags |-> flags, world_tangent |-> world_tangent,
                normal_sample |-> normal_sample, mapped |-> NoOutput]
    /\ PbrIdleLocals
    /\ PbrIdleInputs
    /\ cv = CvIdle

PrepareWorldNormal ==
    /\ pn.phase = "ready"
    /\ pn' = [pn EXCEPT !.phase = "prepared",
                        !.out = prepare_world_normal(pn.world_normal, pn.double_sided,
                                                     pn.is_front)]
    /\ UNCHANGED <<pbrVars, cv>>

ApplyNormalMapping ==
    /\ pn.phase = "prepared"
    /\ pn' = [pn EXCEPT !.phase = "mapped",
                        !.mapped = apply_normal_mapping(pn.standard_material_flags,
                                                        pn.world_normal, pn.world_tangent,
                                                        pn.normal_sample)]
    /\ UNCHANGED <<pbrVars, cv>>

NextNormal ==
    \/ PrepareWorldNormal
    \/ ApplyNormalMapping

SpecNormal == InitNormal /\ [][NextNormal]_vars

----------------------------------------------------------------------------
(* Properties *)

Opaque == STANDARD_MATERIAL_FLAGS_ALPHA_MODE_OPAQUE \in input.material.flags

Masked == STANDARD_MATERIAL_FLAGS_ALPHA_MODE_MASK \in input.material.flags

BaseAlpha == input.material.base_color[4]

AlphaCutoff == input.material.alpha_cutoff

LightOps == {"point_light", "spot_light", "directional_light"}

LightCalls == SelectSeq(trace, LAMBDA e : e.op \in LightOps)

\* C1: a material with the opaque bit set is never discarded, whatever its
\* alpha, cutoff and other bits (the mask bit included); the alpha left by
\* alpha_discard is 1.0 and pbr returns a colour whose alpha is 1.0.
C1_OpaqueAlphaIsOne ==
    Opaque =>
        /\ pc # "killed"
        /\ pc # "start" => output_color[4] = One
        /\ pc = "done" => result # NoOutput /\ result[4] = One

C1_Witness ==
    /\ pc = "done"
    /\ Opaque
    /\ Masked
    /\ BaseAlpha < AlphaCutoff
    /\ result[4] = One

\* C2 as stated: whenever the mask bit is set, alpha < cutoff discards the
\* fragment and alpha >= cutoff (equality included) keeps it with alpha 1.0.
C2_MaskBitAloneDecides ==
    (Masked /\ pc # "start") =>
        IF BaseAlpha < AlphaCutoff
        THEN pc = "killed" /\ result = NoOutput
        ELSE pc # "killed" /\ output_color[4] = One

\* C2 amended: whenever the mask bit is set and the opaque bit is clear,
\* alpha < cutoff discards the fragment and alpha >= cutoff (equality
\* included) keeps it with alpha 1.0.
C2_MaskedWithoutOpaque ==
    (Masked /\ ~Opaque /\ pc # "start") =>
        IF BaseAlpha < AlphaCutoff
        THEN pc = "killed" /\ result = NoOutput
        ELSE pc # "killed" /\ output_color[4] = One

C2_Witness ==
    /\ pc = "done"
    /\ Masked
    /\ ~Opaque
    /\ BaseAlpha = AlphaCutoff
    /\ BaseAlpha # One
    /\ result[4] = One

\* C3: alpha_discard is the first call of pbr, and an invocation whose
\* fragment it discards makes no other call (no cluster lookup, no light, no
\* shadow fetch, no ambient term) and never produces a colour.
C3_DiscardIsTerminal ==
    /\ trace # <<>> => trace[1].op = "alpha_discard"
    /\ pc = "killed" => Len(trace) = 1 /\ result = NoOutput
    /\ (Masked /\ ~Opaque /\ BaseAlpha < AlphaCutoff) =>
           /\ pc \in {"start", "killed"}
           /\ Len(trace) <= 1
           /\ result = NoOutput

C3_Witness ==
    /\ pc = "killed"
    /\ cluster[2] > 0
    /\ lights.n_directional_lights > 0

\* the <<evaluator, index>> pairs a cluster triple and a directional count
\* call for, in order
ExpectedVisits ==
    [k \in 1..cluster[2] |-> <<"point_light", cluster[1] + k - 1>>]
    \o [k \in 1..cluster[3] |-> <<"spot_light", cluster[1] + cluster[2] + k - 1>>]
    \o [k \in 1..lights.n_directional_lights |-> <<"directional_light", k - 1>>]

Visits == [k \in 1..Len(LightCalls) |-> <<LightCalls[k].op, LightCalls[k].index>>]

\* C4: the lights evaluated so far are always a prefix of: each index of
\* [offset, offset+pointCount) once as a point light, then each index of
\* [offset+pointCount, offset+pointCount+spotCount) once as a spot light,
\* then the directional lights 0..n_directional_lights; a finished
\* invocation has evaluated exactly that list, each point and spot light
\* being the one the light-index list holds at its index.
C4_ClusterRangesVisitedOnceInOrder ==
    /\ Len(Visits) <= Len(ExpectedVisits)
    /\ Visits = SubSeq(ExpectedVisits, 1, Len(Visits))
    /\ pc = "done" => Visits = ExpectedVisits
    /\ \A k \in 1..Len(LightCalls) :
          LightCalls[k].op # "directional_light" =>
              LightCalls[k].light = get_light_id(LightCalls[k].index)

C4_Witness ==
    /\ pc = "done"
    /\ cluster = <<1, 2, 2>>
    /\ lights.n_directional_lights = 2
    /\ Len(Visits) = 6

\* the alpha alpha_discard leaves on a fragment it keeps
KeptAlpha == IF Opaque \/ Masked THEN One ELSE BaseAlpha

\* C5: with no point, spot or directional light, a zero ambient colour and the
\* debug overlay compiled out, the RGB pbr returns is emissive.rgb times the
\* alpha left by alpha_discard.
C5_UnlitIsEmissiveTimesAlpha ==
    ( /\ pc = "done"
      /\ cluster[2] = 0
      /\ cluster[3] = 0
      /\ lights.n_directional_lights = 0
      /\ Truncate(lights.ambient_color) = Vec3Zero
      /\ CLUSTER_DEBUG \notin features ) =>
        Truncate(result) = VScale(Truncate(input.material.emissive), KeptAlpha)

C5_Witness ==
    /\ pc = "done"
    /\ cluster[2] = 0
    /\ cluster[3] = 0
    /\ lights.n_directional_lights = 0
    /\ Truncate(lights.ambient_color) = Vec3Zero
    /\ CLUSTER_DEBUG \notin features
    /\ ~Opaque
    /\ ~Masked
    /\ BaseAlpha = Half
    /\ Truncate(input.material.emissive) # Vec3Zero
    /\ Truncate(result) = <<Half, One \div 4, One>>

\* C6 as stated: a finished invocation returns an alpha that is in [0,1] and
\* is the alpha left by alpha_discard, for every flag combination.
C6_AlphaInUnitRange ==
    pc = "done" =>
        /\ result[4] = KeptAlpha
        /\ 0 <= result[4]
        /\ result[4] <= One

\* C6 amended: after alpha_discard the alpha of output_color is the alpha it
\* left (1.0 for opaque and kept masked materials, the base-colour alpha
\* otherwise) and a finished invocation returns that alpha; it is in [0,1]
\* when the material is opaque or masked or the base-colour alpha is in [0,1].
C6_AlphaIsKeptAlpha ==
    /\ pc \notin {"start", "killed"} => output_color[4] = KeptAlpha
    /\ pc = "done" =>
          /\ result[4] = KeptAlpha
          /\ (Opaque \/ Masked \/ (0 <= BaseAlpha /\ BaseAlpha <= One)) =>
                (0 <= result[4] /\ result[4] <= One)

C6_Witness ==
    /\ pc = "done"
    /\ ~Opaque
    /\ ~Masked
    /\ BaseAlpha = Half
    /\ result[4] = Half
    /\ CLUSTER_DEBUG \in features
    /\ cluster[2] > 0

\* C7: the n_dot_v handed to every point, spot and directional light
\* evaluator and to both env_brdf_approx calls is at least 1e-4.
C7_NDotVFloored ==
    /\ pc \notin {"start", "killed", "shade"} => n_dot_v >= N_DOT_V_FLOOR
    /\ \A k \in 1..Len(trace) :
          trace[k].op \in LightOps \cup {"env_brdf_approx"} =>
              trace[k].n_dot_v >= N_DOT_V_FLOOR

C7_Witness ==
    /\ pc = "done"
    /\ Dot(input.n, input.v) < 0
    /\ Len(LightCalls) = 3
    /\ \A k \in 1..Len(trace) :
          trace[k].op \in LightOps \cup {"env_brdf_approx"} =>
              trace[k].n_dot_v = N_DOT_V_FLOOR

\* C8: two orthographic calculate_view calls whose view_proj agree on the z
\* components of the x, y and z axes return the same vector, whatever the two
\* world positions, the two camera positions and the rest of view_proj are.
C8_OrthographicViewIsFragmentIndependent ==
    ( /\ cv.phase = "both"
      /\ cv.is_orthographic
      /\ SameForwardAxis(cv.view_a.view_proj, cv.view_b.view_proj) ) =>
        cv.out_a = cv.out_b

C8_Witness ==
    /\ cv.phase = "both"
    /\ cv.is_orthographic
    /\ cv.position_a # cv.position_b
    /\ cv.view_a.world_position # cv.view_b.world_position
    /\ cv.view_a.view_proj # cv.view_b.view_proj
    /\ cv.out_a = cv.out_b
    /\ cv.out_a = <<0, 0, -One>>

OwnSampler(op) ==
    CASE op = "point_light" -> "fetch_point_shadow"
      [] op = "spot_light" -> "fetch_spot_shadow"
      [] op = "directional_light" -> "fetch_directional_shadow"

\* whether the mesh receives shadows and the light of call e casts them
BothShadowFlags(e) ==
    /\ MESH_FLAGS_SHADOW_RECEIVER_BIT \in mesh.flags
    /\ IF e.op = "directional_light"
       THEN DIRECTIONAL_LIGHT_FLAGS_SHADOWS_ENABLED_BIT
                \in lights.directional_lights[e.index + 1].flags
       ELSE POINT_LIGHT_FLAGS_SHADOWS_ENABLED_BIT \in point_lights[e.light].flags

\* C9: for every light evaluated, if the mesh is no shadow receiver or the
\* light has shadows disabled then its shadow factor is 1.0 and no sampler
\* was called; a sampler is called only when both flags are set, and then it
\* is the sampler of the light's type, called with the light's own index.
C9_ShadowOnlyWhenBothFlags ==
    \A k \in 1..Len(LightCalls) :
        LET e == LightCalls[k] IN
        /\ ~BothShadowFlags(e) => (e.shadow = One /\ e.sampler = "none")
        /\ e.sampler # "none" =>
              /\ BothShadowFlags(e)
              /\ e.sampler = OwnSampler(e.op)
              /\ e.sampler_arg = e.light

C9_Witness ==
    /\ pc = "done"
    /\ shadow_texel = 0
    /\ \E j \in 1..Len(LightCalls), k \in 1..Len(LightCalls) :
          /\ LightCalls[j].op = "spot_light"
          /\ LightCalls[j].sampler = "none"
          /\ MESH_FLAGS_SHADOW_RECEIVER_BIT \in mesh.flags
          /\ LightCalls[k].op = "spot_light"
          /\ LightCalls[k].sampler = "fetch_spot_shadow"
          /\ LightCalls[k].shadow = 0
    /\ \E k \in 1..Len(LightCalls) : LightCalls[k].sampler = "fetch_directional_shadow"
    /\ \E k \in 1..Len(LightCalls) : LightCalls[k].sampler = "fetch_point_shadow"

NormalMappingActive ==
    VERTEX_TANGENTS \in features /\ STANDARDMATERIAL_NORMAL_MAP \in features

Negated(a) == [k \in 1..3 |-> -a[k]]

\* C10: prepare_world_normal returns the normal unchanged when both
\* normal-mapping features are on; in every other build it returns the
\* negated normal exactly when double_sided is true and is_front is false.
C10_FlipsWheneverNormalMappingInactive ==
    pn.phase \in {"prepared", "mapped"} =>
        pn.out = IF ~NormalMappingActive /\ pn.double_sided /\ ~pn.is_front
                 THEN Negated(pn.world_normal)
                 ELSE pn.world_normal

Cross(a, b) ==
    <<FMul(a[2], b[3]) - FMul(a[3], b[2]),
      FMul(a[3], b[1]) - FMul(a[1], b[3]),
      FMul(a[1], b[2]) - FMul(a[2], b[1])>>

\* sqrt of a value in [0,1]
FSqrt(x) == ISqrtBetween(x * One, 0, One)

\* the tangent-space normal of a texel: remapped to [-1,1], Z rebuilt for
\* two-component maps, Y flipped when flagged
TangentSpaceNormal(flags, sample) ==
    LET x == 2 * sample[1] - One
        y == 2 * sample[2] - One
        z == IF STANDARD_MATERIAL_FLAGS_TWO_COMPONENT_NORMAL_MAP \in flags
             THEN FSqrt(One - FMul(x, x) - FMul(y, y))
             ELSE 2 * sample[3] - One
    IN  <<x, IF STANDARD_MATERIAL_FLAGS_FLIP_NORMAL_MAP_Y \in flags THEN -y ELSE y, z>>

\* normalize(Nt.x*T + Nt.y*B + Nt.z*N) with B = tangent.w * cross(N, T)
MappedNormal(flags, N, tangent, sample) ==
    LET Nt == TangentSpaceNormal(flags, sample)
        T == Truncate(tangent)
        B == VScale(Cross(N, T), tangent[4])
    IN  Normalize(VAdd(VAdd(VScale(T, Nt[1]), VScale(B, Nt[2])), VScale(N, Nt[3])))

NormalMappingSupplied ==
    /\ VERTEX_TANGENTS \in features
    /\ VERTEX_UVS \in features
    /\ STANDARDMATERIAL_NORMAL_MAP \in features

\* C11: with vertex tangents, UVs and a normal map all supplied,
\* apply_normal_mapping returns normalize(Nt.x*T + Nt.y*B + Nt.z*N) for the
\* sampled tangent-space normal Nt; in every other build it returns the
\* normalized input world normal.
C11_MappedNormalWhenActive ==
    pn.phase = "mapped" =>
        pn.mapped = IF NormalMappingSupplied
                    THEN MappedNormal(pn.standard_material_flags, pn.world_normal,
                                      pn.world_tangent, pn.normal_sample)
                    ELSE Normalize(pn.world_normal)

====
